---- MODULE Spec2Model ----
(***************************************************************************)
(* A model of vtt-translate: Vtt::parse / Vtt::write (src/src/vtt.rs),     *)
(* recontruct_sentences / update_vtt / run (src/src/lib.rs) and the result *)
(* of TranslationClient::translate (src/src/translate.rs).                 *)
(*                                                                         *)
(* Text.  A Rust String is modelled as a sequence of symbols.  A symbol is *)
(* one character, written as a one-character TLA+ string, except:          *)
(*   "RLM"     the character U+200F (3 bytes in UTF-8, not ASCII, not      *)
(*             white space)                                                *)
(*   "FA"      a Persian letter (2 bytes in UTF-8, not ASCII)              *)
(*   "WEBVTT"  the six characters of the header literal                    *)
(*   "UUID"    the 36 characters of an 8-4-4-4-12 hexadecimal token        *)
(*   "-->"     the three characters of the timing arrow                    *)
(* The last three stand for character runs that the parser's tests         *)
(* (line == "WEBVTT", the identifier regex, contains("-->")) look at as a  *)
(* whole; their characters never occur on their own in the modelled text.  *)
(***************************************************************************)
EXTENDS Integers, Sequences, FiniteSets, TLC

\* ------------------------------------------------------------------ bounds
MaxBlocks == 2
MaxTextLines == 2
MaxFileLines == 5

\* ----------------------------------------------------------------- strings

\* char::is_whitespace, for the symbols of the model
IsWhitespace(c) == c = " "

\* char::is_ascii
IsAscii(c) == c \notin {"RLM", "FA"}

\* the UTF-8 length of one symbol
CharBytes(c) ==
  CASE c = "RLM" -> 3
    [] c = "FA" -> 2
    [] c = "WEBVTT" -> 6
    [] c = "UUID" -> 36
    [] c = "-->" -> 3
    [] OTHER -> 1

RECURSIVE ByteLen(_)
\* str::len: the length in bytes
ByteLen(s) == IF s = <<>> THEN 0 ELSE CharBytes(Head(s)) + ByteLen(Tail(s))

RECURSIVE TrimStart(_)
TrimStart(s) ==
  IF s # <<>> /\ IsWhitespace(Head(s)) THEN TrimStart(Tail(s)) ELSE s

RECURSIVE TrimEnd(_)
TrimEnd(s) ==
  IF s # <<>> /\ IsWhitespace(s[Len(s)])
  THEN TrimEnd(SubSeq(s, 1, Len(s) - 1))
  ELSE s

\* str::trim
Trim(s) == TrimEnd(TrimStart(s))

RECURSIVE Split(_, _)
\* str::split(d), collected: "a." gives <<"a", "">>, "" gives <<"">>
Split(s, d) ==
  IF \E i \in 1..Len(s) : s[i] = d
  THEN LET i == CHOOSE k \in 1..Len(s) :
                  s[k] = d /\ \A j \in 1..(k - 1) : s[j] # d
       IN  <<SubSeq(s, 1, i - 1)>> \o Split(SubSeq(s, i + 1, Len(s)), d)
  ELSE <<s>>

RECURSIVE Flatten(_)
\* the concatenation of a sequence of sequences
Flatten(ss) == IF ss = <<>> THEN <<>> ELSE Head(ss) \o Flatten(Tail(ss))

\* -------------------------------------------------------------- vtt.rs

\* is_blank: the regex ^\s*$
is_blank(line) == \A i \in 1..Len(line) : IsWhitespace(line[i])

\* is_new_block: the regex is anchored at the start of the line only
is_new_block(line) == Len(line) >= 1 /\ line[1] = "UUID"

\* is_timecode: line.contains("-->")
is_timecode(line) == \E i \in 1..Len(line) : line[i] = "-->"

HeaderLine == <<"WEBVTT">>

\* struct VttBlock
VttBlock(id, timecode, text_lines) ==
  [_id |-> id, timecode |-> timecode, text_lines |-> text_lines]

\* One iteration of the loop of Vtt::parse.  st.block is the Option<VttBlock>
\* as a sequence of zero or one block.
ParseLine(st, line) ==
  IF is_blank(line) \/ line = HeaderLine THEN st
  ELSE IF is_new_block(line)
  THEN [blocks |-> st.blocks \o st.block,
        block  |-> <<VttBlock(line, <<>>, <<>>)>>]
  ELSE IF is_timecode(line)
  THEN [st EXCEPT !.block =
          IF st.block = <<>> THEN <<>>
          ELSE <<[st.block[1] EXCEPT !.timecode = line]>>]
  ELSE [st EXCEPT !.block =
          IF st.block = <<>> THEN <<>>
          ELSE <<[st.block[1] EXCEPT
                    !.text_lines = Append(@, Trim(line))]>>]

RECURSIVE ParseLoop(_, _)
ParseLoop(st, lines) ==
  IF lines = <<>> THEN st
  ELSE ParseLoop(ParseLine(st, Head(lines)), Tail(lines))

\* a variant of Vtt::parse that does not push the block in progress at the
\* end of the input
ParseWithoutLastBlock(lines) ==
  ParseLoop([blocks |-> <<>>, block |-> <<>>], lines).blocks

\* Vtt::parse on the lines of a file that could be read: vtt.blocks
Parse(lines) ==
  LET st == ParseLoop([blocks |-> <<>>, block |-> <<>>], lines)
  IN  st.blocks \o st.block

\* The line Vtt::write prints for one text line
WriteLine(text_line, direction) ==
  LET line0 == Trim(text_line)
      line1 == IF direction = "Rtl"
                  /\ IsAscii(IF line0 = <<>> THEN "a" ELSE line0[1])
               THEN <<"RLM">> \o line0 ELSE line0
      last  == Trim(line1)
      line2 == IF direction = "Rtl"
                  /\ IsAscii(IF last = <<>> THEN "a" ELSE last[Len(last)])
               THEN line1 \o <<"RLM">> ELSE line1
  IN  line2

\* The writeln! calls Vtt::write makes for one block, each with the lines
\* it prints
BlockCalls(b, direction) ==
  <<<<b._id>>, <<b.timecode>>>>
    \o [i \in 1..Len(b.text_lines) |-> <<WriteLine(b.text_lines[i], direction)>>]
    \o <<<< <<>> >>>>

RECURSIVE WriteCalls(_, _)
\* The writeln! calls Vtt::write makes for the blocks, in order
WriteCalls(blocks, direction) ==
  IF blocks = <<>> THEN <<>>
  ELSE BlockCalls(Head(blocks), direction) \o WriteCalls(Tail(blocks), direction)

\* All the writeln! calls of Vtt::write: the header call prints "WEBVTT\n"
\* and a line break, which a reader sees as the header line and a blank line
AllWriteCalls(blocks, direction) ==
  <<<<HeaderLine, <<>>>>>> \o WriteCalls(blocks, direction)

\* -------------------------------------------------------------- lib.rs

\* the lookahead slack of the greedy word loop of update_vtt
LookaheadSlack == 3

\* struct ChunkDesc; block_num and line_num count from 0 as in the code
ChunkDesc(block_num, line_num, chunk_len) ==
  [block_num |-> block_num, line_num |-> line_num, chunk_len |-> chunk_len]

\* The body of the while-let loop of recontruct_sentences for one chunk of a
\* line; has_next is chunks.peek().is_some().  acc holds all_sentences,
\* this_sentence and this_sentence_chunk_descs.  A Sentence is the pair
\* <<chunk descs, text>>.
ProcessChunk(acc, block_num, line_num, chunk, has_next) ==
  IF chunk = <<>> THEN acc
  ELSE LET trimmed == Trim(chunk)
           desc    == ChunkDesc(block_num, line_num, ByteLen(trimmed))
       IN  IF has_next
           THEN [all_sentences |->
                   Append(acc.all_sentences,
                          <<Append(acc.this_sentence_chunk_descs, desc),
                            acc.this_sentence \o trimmed \o <<".">>>>),
                 this_sentence |-> <<>>,
                 this_sentence_chunk_descs |-> <<>>]
           ELSE [all_sentences |-> acc.all_sentences,
                 this_sentence |-> acc.this_sentence \o trimmed \o <<" ">>,
                 this_sentence_chunk_descs |->
                   Append(acc.this_sentence_chunk_descs, desc)]

RECURSIVE ProcessChunks(_, _, _, _, _)
\* the chunks of one line from the k-th on
ProcessChunks(acc, block_num, line_num, chunks, k) ==
  IF k > Len(chunks) THEN acc
  ELSE ProcessChunks(
         ProcessChunk(acc, block_num, line_num, chunks[k], k < Len(chunks)),
         block_num, line_num, chunks, k + 1)

RECURSIVE ProcessLines(_, _, _, _)
\* the text lines of one block from the l-th on (l counts from 1)
ProcessLines(acc, block_num, text_lines, l) ==
  IF l > Len(text_lines) THEN acc
  ELSE ProcessLines(
         ProcessChunks(acc, block_num, l - 1,
                       Split(Trim(text_lines[l]), "."), 1),
         block_num, text_lines, l + 1)

RECURSIVE ProcessBlocks(_, _, _)
\* the blocks from the b-th on (b counts from 1)
ProcessBlocks(acc, blocks, b) ==
  IF b > Len(blocks) THEN acc
  ELSE ProcessBlocks(ProcessLines(acc, b - 1, blocks[b].text_lines, 1),
                     blocks, b + 1)

\* the accumulators of recontruct_sentences after its loops
ReconstructLoops(blocks) ==
  ProcessBlocks([all_sentences |-> <<>>, this_sentence |-> <<>>,
                 this_sentence_chunk_descs |-> <<>>], blocks, 1)

\* a variant that also flushes a sentence still open after the loops
recontruct_sentences_flushing(blocks) ==
  LET acc == ReconstructLoops(blocks)
  IN  IF acc.this_sentence_chunk_descs = <<>> THEN acc.all_sentences
      ELSE Append(acc.all_sentences,
                  <<acc.this_sentence_chunk_descs, acc.this_sentence>>)

\* recontruct_sentences: what it returns
recontruct_sentences(blocks) == ReconstructLoops(blocks).all_sentences

\* The first statement of update_vtt: every text line becomes ""
BlankLines(blocks) ==
  [b \in 1..Len(blocks) |->
     [blocks[b] EXCEPT !.text_lines = [l \in 1..Len(@) |-> <<>>]]]

RECURSIVE SumChunkLen(_)
\* total_chunks_len
SumChunkLen(descs) ==
  IF descs = <<>> THEN 0 ELSE Head(descs).chunk_len + SumChunkLen(Tail(descs))

RECURSIVE TakeWordsNoSlack(_, _, _, _, _)
\* a variant of the word loop that compares the chunk length with the
\* target without the lookahead slack
TakeWordsNoSlack(new_chunk_text, words, w, new_chunk_size, is_last) ==
  IF (new_chunk_text = <<>>
        \/ ByteLen(new_chunk_text) <= new_chunk_size
        \/ is_last)
     /\ w <= Len(words)
  THEN TakeWordsNoSlack(IF words[w] # <<>>
                        THEN new_chunk_text \o words[w] \o <<" ">>
                        ELSE new_chunk_text,
                        words, w + 1, new_chunk_size, is_last)
  ELSE [text |-> new_chunk_text, w |-> w]

RECURSIVE TakeWords(_, _, _, _, _)
\* The inner while loop of update_vtt.  words is new_text.split(' ')
\* collected, w the position of next_word in it (next_word is None when w
\* is past the end), is_last is chunk_descs.peek().is_none().  Gives the
\* chunk text and the position of next_word after the loop.
TakeWords(new_chunk_text, words, w, new_chunk_size, is_last) ==
  IF (new_chunk_text = <<>>
        \/ ByteLen(new_chunk_text) + LookaheadSlack <= new_chunk_size
        \/ is_last)
     /\ w <= Len(words)
  THEN TakeWords(IF words[w] # <<>>
                 THEN new_chunk_text \o words[w] \o <<" ">>
                 ELSE new_chunk_text,
                 words, w + 1, new_chunk_size, is_last)
  ELSE [text |-> new_chunk_text, w |-> w]

\* a variant that starts a new line for the chunk
PlaceChunkAsNewLine(blocks, chunk_desc, new_chunk_text) ==
  [blocks EXCEPT ![chunk_desc.block_num + 1].text_lines =
     Append(@, new_chunk_text)]

\* Lines 137-140 of update_vtt: the chunk goes to the end of its line,
\* after a space when the line already holds text
PlaceChunk(blocks, chunk_desc, new_chunk_text) ==
  [blocks EXCEPT
     ![chunk_desc.block_num + 1].text_lines[chunk_desc.line_num + 1] =
        (IF @ # <<>> THEN @ \o <<" ">> ELSE @) \o new_chunk_text]

RECURSIVE UpdateChunks(_, _, _, _, _, _)
\* The while-let loop of update_vtt over the chunk descs of one sentence,
\* from the k-th on.  st holds the blocks, the chunk texts placed so far for
\* this sentence, and whether the division panicked.
UpdateChunks(st, descs, k, new_text, words, w) ==
  IF k > Len(descs) THEN st
  ELSE LET total_chunks_len == SumChunkLen(descs)
       IN  IF total_chunks_len = 0
           THEN [st EXCEPT !.panicked = TRUE]
           ELSE
             LET new_chunk_size ==
                   (descs[k].chunk_len * ByteLen(new_text)) \div total_chunks_len
                 taken == TakeWords(<<>>, words, w, new_chunk_size,
                                    k = Len(descs))
             IN  UpdateChunks(
                   [blocks   |-> PlaceChunk(st.blocks, descs[k], taken.text),
                    chunks   |-> Append(st.chunks, taken.text),
                    panicked |-> FALSE],
                   descs, k + 1, new_text, words, taken.w)

RECURSIVE UpdateSentences(_, _, _)
\* The for loop of update_vtt over the sentences, from the n-th on.  st
\* holds the blocks, the chunk texts placed for each sentence done, and
\* whether a division panicked.
UpdateSentences(st, sentences, n) ==
  IF n > Len(sentences) \/ st.panicked THEN st
  ELSE LET r == UpdateChunks([blocks |-> st.blocks, chunks |-> <<>>,
                              panicked |-> FALSE],
                             sentences[n][1], 1, sentences[n][2],
                             Split(sentences[n][2], " "), 1)
       IN  UpdateSentences([blocks   |-> r.blocks,
                            placed   |-> Append(st.placed, r.chunks),
                            panicked |-> r.panicked],
                           sentences, n + 1)

\* update_vtt: the blocks it leaves, the chunk texts it appended for each
\* sentence, and whether it panicked (division by zero)
update_vtt(blocks, sentences) ==
  UpdateSentences([blocks |-> BlankLines(blocks), placed |-> <<>>,
                   panicked |-> FALSE], sentences, 1)

\* translate, lines 200-203: a fullstop is added to a translation that does
\* not end with one
EnsureFullstop(sentence) ==
  IF sentence # <<>> /\ sentence[Len(sentence)] = "." THEN sentence
  ELSE sentence \o <<".">>

\* run, lines 217-219: sentence n gets to_sentences[n] as its text
AssignTranslations(sentences, translated) ==
  [n \in 1..Len(sentences) |-> <<sentences[n][1], translated[n]>>]

\* ------------------------------------------------------------- inputs

\* The text lines a source file is drawn from: plain words, a closed
\* sentence, a fullstop inside the line, a chunk of white space only
\* between two fullstops, and a line of two-byte characters.
TextLineSet ==
  { <<"a", " ", "b">>,
    <<"a", ".">>,
    <<"a", ".", "b">>,
    <<"a", ".", " ", ".">>,
    <<"FA", "FA", ".">> }

\* The document of the end-to-end scenario: block A with "Hello there." and
\* "How are you", block B with "today?"
ScenarioTexts ==
  << << <<"H","e","l","l","o"," ","t","h","e","r","e",".">>,
        <<"H","o","w"," ","a","r","e"," ","y","o","u">> >>,
     << <<"t","o","d","a","y","?">> >> >>

\* What the translation service may answer for one sentence: the two texts
\* of the end-to-end scenario ("Bonjour.", "Comment vas-tu aujourd'hui?"),
\* a text with a doubled space and two-byte characters, and a short one.
ReplacementTexts ==
  << <<"B","o","n","j","o","u","r",".">>,
     <<"C","o","m","m","e","n","t"," ","v","a","s","-","t","u"," ",
       "a","u","j","o","u","r","d","'","h","u","i","?">>,
     <<"FA", " ", "b", " ", " ", "c", " ", "FA">>,
     <<"b", " ", "FA", ".">> >>

DigitSyms == <<"1", "2", "3", "4", "5", "6", "7", "8", "9">>

\* the identifier line and the timing line of the i-th block of a file
BlockIdLine(i) == <<"UUID", "-", DigitSyms[i]>>
TimingLine(i) == <<DigitSyms[i], "-->", DigitSyms[i + 1]>>

LineSeqsUpTo(l) == UNION {[1..k -> TextLineSet] : k \in 0..l}

RECURSIVE DocTextsUpTo(_, _)
\* the text lines of the blocks of a document: at most b blocks, at most l
\* text lines in all
DocTextsUpTo(b, l) ==
  IF b = 0 THEN {<<>>}
  ELSE {<<>>} \cup
       UNION { { <<ls>> \o rest : rest \in DocTextsUpTo(b - 1, l - Len(ls)) }
               : ls \in LineSeqsUpTo(l) }

\* the lines of the file that holds the blocks with these text lines
SourceFileOf(texts) ==
  <<HeaderLine, <<>>>> \o
  Flatten([i \in 1..Len(texts) |->
             <<BlockIdLine(i), TimingLine(i)>> \o texts[i] \o << <<>> >>])

SourceFiles ==
  { SourceFileOf(t) : t \in DocTextsUpTo(MaxBlocks, MaxTextLines) }
    \cup { SourceFileOf(ScenarioTexts) }

\* the answer of the service with k items: the replacement texts in turn,
\* starting from the p-th
Response(k, p) ==
  [i \in 1..k |->
     ReplacementTexts[((i - 1 + p) % Len(ReplacementTexts)) + 1]]

\* -------------------------------------------------------------- state

VARIABLES
  pc,             \* where run is: the next step, or how it ended
  fault,          \* what ended the run early ("none" while it has not)
  source_file,    \* the lines of the source file
  from_vtt,       \* run's from_vtt.blocks
  all_sentences,  \* run's all_sentences
  to_sentences,   \* what translate returned
  direction,      \* the direction translate returned
  to_vtt,         \* run's to_vtt.blocks
  placed,         \* per sentence, the chunk texts update_vtt appended
  target_file,    \* the target file: created by this run or not, its lines
  reparsed        \* the blocks of a second parse (round trip)

vars == <<pc, fault, source_file, from_vtt, all_sentences, to_sentences,
          direction, to_vtt, placed, target_file, reparsed>>

NoFile == [created |-> FALSE, lines |-> <<>>]

InitRest ==
  /\ fault = "none"
  /\ from_vtt = <<>>
  /\ all_sentences = <<>>
  /\ to_sentences = <<>>
  /\ direction = "Ltr"
  /\ to_vtt = <<>>
  /\ placed = <<>>
  /\ target_file = NoFile
  /\ reparsed = <<>>

Init ==
  /\ pc = "parse"
  /\ source_file \in SourceFiles
  /\ InitRest

\* run ends with an error (Err) or a panic
Abort(kind) ==
  /\ pc' = "aborted"
  /\ fault' = kind

\* run, line 195: Vtt::parse reads the file
ParseOk ==
  /\ pc = "parse"
  /\ from_vtt' = Parse(source_file)
  /\ pc' = "reconstruct"
  /\ UNCHANGED <<fault, source_file, all_sentences, to_sentences, direction,
                 to_vtt, placed, target_file, reparsed>>

\* run, line 195: File::open or a line read fails
ParseFault ==
  /\ pc = "parse"
  /\ Abort("parse_io")
  /\ UNCHANGED <<source_file, from_vtt, all_sentences, to_sentences,
                 direction, to_vtt, placed, target_file, reparsed>>

\* run, line 198
Reconstruct ==
  /\ pc = "reconstruct"
  /\ all_sentences' = recontruct_sentences(from_vtt)
  /\ pc' = "translate"
  /\ UNCHANGED <<fault, source_file, from_vtt, to_sentences, direction,
                 to_vtt, placed, target_file, reparsed>>

\* run, lines 209-211: translate returns Err (a send error, a status other
\* than 200, the /languages call failing)
TranslateFault ==
  /\ pc = "translate"
  /\ Abort("transport")
  /\ UNCHANGED <<source_file, from_vtt, all_sentences, to_sentences,
                 direction, to_vtt, placed, target_file, reparsed>>

\* translate, lines 174 and 196-197: the body does not deserialize, or an
\* item fails an assert_eq (not one translation, not the target language)
TranslateContract ==
  /\ pc = "translate"
  /\ Abort("contract")
  /\ UNCHANGED <<source_file, from_vtt, all_sentences, to_sentences,
                 direction, to_vtt, placed, target_file, reparsed>>

\* run, lines 209-211: translate returns Ok.  The service answers with as
\* many items as sentences, one fewer or one more.
TranslateOk ==
  /\ pc = "translate"
  /\ \E k \in {Len(all_sentences) - 1, Len(all_sentences),
               Len(all_sentences) + 1} \cap Nat,
        p \in 0..(Len(ReplacementTexts) - 1),
        d \in {"Ltr", "Rtl"} :
        /\ to_sentences' = [i \in 1..k |-> EnsureFullstop(Response(k, p)[i])]
        /\ direction' = d
  /\ pc' = "assign"
  /\ UNCHANGED <<fault, source_file, from_vtt, all_sentences, to_vtt,
                 placed, target_file, reparsed>>

\* run, lines 217-219, when to_sentences[n] is out of bounds for some n
AssignPanic ==
  /\ pc = "assign"
  /\ Len(to_sentences) < Len(all_sentences)
  /\ Abort("index")
  /\ UNCHANGED <<source_file, from_vtt, all_sentences, to_sentences,
                 direction, to_vtt, placed, target_file, reparsed>>

\* run, lines 217-219
Assign ==
  /\ pc = "assign"
  /\ Len(to_sentences) >= Len(all_sentences)
  /\ all_sentences' = AssignTranslations(all_sentences, to_sentences)
  /\ pc' = "update"
  /\ UNCHANGED <<fault, source_file, from_vtt, to_sentences, direction,
                 to_vtt, placed, target_file, reparsed>>

\* run, lines 222-223: to_vtt is a clone of from_vtt, and update_vtt runs
\* on it
Update ==
  /\ pc = "update"
  /\ LET r == update_vtt(from_vtt, all_sentences)
     IN  /\ to_vtt' = r.blocks
         /\ placed' = r.placed
         /\ \/ /\ r.panicked
               /\ Abort("div_zero")
            \/ /\ ~r.panicked
               /\ pc' = "write"
               /\ fault' = fault
  /\ UNCHANGED <<source_file, from_vtt, all_sentences, to_sentences,
                 direction, target_file, reparsed>>

\* Vtt::write, line 75: File::create fails
WriteCreateFault ==
  /\ pc = "write"
  /\ Abort("create_io")
  /\ UNCHANGED <<source_file, from_vtt, all_sentences, to_sentences,
                 direction, to_vtt, placed, target_file, reparsed>>

\* Vtt::write, lines 75-97: File::create succeeds (the file is empty from
\* then on) and the k-th writeln! fails: the lines of the calls before it
\* are in the file
WriteFault ==
  /\ pc = "write"
  /\ LET calls == AllWriteCalls(to_vtt, direction)
     IN  \E k \in 1..Len(calls) :
           target_file' = [created |-> TRUE,
                           lines |-> Flatten(SubSeq(calls, 1, k - 1))]
  /\ Abort("write_io")
  /\ UNCHANGED <<source_file, from_vtt, all_sentences, to_sentences,
                 direction, to_vtt, placed, reparsed>>

\* Vtt::write, lines 69-98, when every call succeeds
WriteOk ==
  /\ pc = "write"
  /\ target_file' = [created |-> TRUE,
                     lines |-> Flatten(AllWriteCalls(to_vtt, direction))]
  /\ pc' = "done"
  /\ UNCHANGED <<fault, source_file, from_vtt, all_sentences, to_sentences,
                 direction, to_vtt, placed, reparsed>>

Next ==
  \/ ParseOk
  \/ ParseFault
  \/ Reconstruct
  \/ TranslateFault
  \/ TranslateContract
  \/ TranslateOk
  \/ AssignPanic
  \/ Assign
  \/ Update
  \/ WriteCreateFault
  \/ WriteFault
  \/ WriteOk

Spec == Init /\ [][Next]_vars

\* ------------------------------------------- parse, write, parse again

\* The lines a file of any shape is drawn from: the header, a blank line,
\* two identifier lines, two timing lines, a text line with white space around
\* it, and a text line that is the header literal after white space.
FileLineSet ==
  { HeaderLine,
    <<>>,
    BlockIdLine(1),
    BlockIdLine(2),
    TimingLine(1),
    TimingLine(2),
    <<" ", "a", " ">>,
    <<" ", "WEBVTT">> }

AnyFiles == UNION {[1..k -> FileLineSet] : k \in 0..MaxFileLines}

InitParse ==
  /\ pc = "rt_parse"
  /\ source_file \in AnyFiles
  /\ InitRest

\* Vtt::parse of the source file
RtParse ==
  /\ pc = "rt_parse"
  /\ from_vtt' = Parse(source_file)
  /\ pc' = "rt_write"
  /\ UNCHANGED <<fault, source_file, all_sentences, to_sentences, direction,
                 to_vtt, placed, target_file, reparsed>>

\* Vtt::write of the parsed document, direction Ltr, every call succeeding
RtWrite ==
  /\ pc = "rt_write"
  /\ target_file' = [created |-> TRUE,
                     lines |-> Flatten(AllWriteCalls(from_vtt, "Ltr"))]
  /\ pc' = "rt_reparse"
  /\ UNCHANGED <<fault, source_file, from_vtt, all_sentences, to_sentences,
                 direction, to_vtt, placed, reparsed>>

\* Vtt::parse of the written file
RtReparse ==
  /\ pc = "rt_reparse"
  /\ reparsed' = Parse(target_file.lines)
  /\ pc' = "rt_done"
  /\ UNCHANGED <<fault, source_file, from_vtt, all_sentences, to_sentences,
                 direction, to_vtt, placed, target_file>>

NextParse ==
  \/ RtParse
  \/ RtWrite
  \/ RtReparse

SpecParse == InitParse /\ [][NextParse]_vars

\* ------------------------------------------------------------- claims

\* the non-empty words of a text, split on single spaces
WordsOf(text) == SelectSeq(Split(text, " "), LAMBDA word : word # <<>>)

\* The non-empty chunks of one text line, left to right: where the chunk
\* is, its text, and whether another split result follows it on the line
LineEvents(block_num, line_num, text_line) ==
  LET chunks == Split(Trim(text_line), ".")
  IN  SelectSeq([k \in 1..Len(chunks) |->
                   [block_num |-> block_num, line_num |-> line_num,
                    chunk |-> chunks[k], closes |-> k < Len(chunks)]],
                LAMBDA e : e.chunk # <<>>)

\* The non-empty chunks of a document in block, line, left-to-right order
DocEvents(blocks) ==
  Flatten([b \in 1..Len(blocks) |->
             Flatten([l \in 1..Len(blocks[b].text_lines) |->
                        LineEvents(b - 1, l - 1, blocks[b].text_lines[l])])])

\* all_sentences still holds what recontruct_sentences returned
Reconstructed == pc \in {"translate", "assign"}

\* translate has returned Ok
ResponseReceived ==
  \/ pc \in {"assign", "update", "write", "done"}
  \/ fault \in {"index", "div_zero", "create_io", "write_io"}

\* update_vtt has run
UpdateRan ==
  \/ pc \in {"write", "done"}
  \/ fault \in {"div_zero", "create_io", "write_io"}

\* the chunk descs of all the sentences that point at a line
DescsAt(sentences, block_num, line_num) ==
  UNION { { <<n, j>> : j \in { i \in 1..Len(sentences[n][1]) :
                                /\ sentences[n][1][i].block_num = block_num
                                /\ sentences[n][1][i].line_num = line_num } }
          : n \in 1..Len(sentences) }

\* C1 (as stated): for every sentence with at least one FragmentPosition,
\* the chunks update_vtt appends for it hold exactly the non-empty words of
\* its replacement text, in order, each once.
C1_WordConservation ==
  UpdateRan =>
    \A n \in 1..Len(all_sentences) :
      Len(all_sentences[n][1]) >= 1 =>
        /\ n <= Len(placed)
        /\ Flatten([j \in 1..Len(placed[n]) |-> WordsOf(placed[n][j])])
             = WordsOf(all_sentences[n][2])

\* C2 (as stated): every non-empty chunk of every text line is a fragment
\* of some emitted sentence, the text after the last fullstop of the
\* document included.
C2_Completeness ==
  Reconstructed =>
    \A b \in 1..Len(from_vtt) :
      \A l \in 1..Len(from_vtt[b].text_lines) :
        Cardinality(DescsAt(all_sentences, b - 1, l - 1))
          = Len(LineEvents(b - 1, l - 1, from_vtt[b].text_lines[l]))

ScenarioSentences ==
  << << <<ChunkDesc(0, 0, 11)>>,
        <<"H","e","l","l","o"," ","t","h","e","r","e",".">> >>,
     << <<ChunkDesc(0, 1, 11), ChunkDesc(1, 0, 6)>>,
        <<"H","o","w"," ","a","r","e"," ","y","o","u"," ",
          "t","o","d","a","y","?">> >> >>

\* C3 (as stated): for the scenario document reconstruction yields the two
\* sentences ("Hello there.", [(A,0,11)]) and ("How are you today?",
\* [(A,1,11),(B,0,6)]); with the replacement texts "Bonjour." and "Comment
\* vas-tu aujourd'hui?" reflow puts "Bonjour." in block A line 0 and splits
\* the second text over block A line 1 and block B line 0.
C3_Scenario ==
  source_file = SourceFileOf(ScenarioTexts) =>
    /\ Reconstructed => all_sentences = ScenarioSentences
    /\ (pc \in {"write", "done"}
        /\ Len(to_sentences) >= 2
        /\ to_sentences[1] = ReplacementTexts[1]
        /\ to_sentences[2] = EnsureFullstop(ReplacementTexts[2])) =>
         /\ Trim(to_vtt[1].text_lines[1]) = ReplacementTexts[1]
         /\ to_vtt[1].text_lines[2] # <<>>
         /\ to_vtt[2].text_lines[1] # <<>>
         /\ WordsOf(to_vtt[1].text_lines[2]) \o WordsOf(to_vtt[2].text_lines[1])
              = WordsOf(to_sentences[2])

\* C4 (as stated): every FragmentPosition the reconstructor records has
\* fragment_length >= 1, and reflow of its output never divides by zero.
C4_NoZeroLength ==
  /\ \A n \in 1..Len(all_sentences) :
       \A j \in 1..Len(all_sentences[n][1]) :
         all_sentences[n][1][j].chunk_len >= 1
  /\ fault # "div_zero"

\* C5 (as stated): after a run in which a fault occurred, the target file
\* was not written at all or holds the complete new document.
C5_AllOrNothing ==
  pc = "aborted" =>
    \/ ~target_file.created
    \/ target_file.lines = Flatten(AllWriteCalls(to_vtt, direction))

\* C6 (as stated): when the response holds a number of items different
\* from the number of sentences sent, the run aborts before reflow and
\* nothing is written.
C6_CountMismatchFatal ==
  (ResponseReceived /\ Len(to_sentences) # Len(all_sentences)) =>
    /\ pc = "assign" \/ fault = "index"
    /\ ~target_file.created

\* the line the claim says is written for a text line
ClaimedLine(text_line, dir) ==
  LET t == Trim(text_line)
  IN  IF dir = "Rtl" /\ t # <<>>
      THEN (IF IsAscii(t[1]) THEN <<"RLM">> ELSE <<>>)
             \o t \o (IF IsAscii(t[Len(t)]) THEN <<"RLM">> ELSE <<>>)
      ELSE t

\* C7 (as stated): with direction Rtl a line is written with U+200F in
\* front exactly when it is non-empty and starts with an ASCII character,
\* and with U+200F behind exactly when it is non-empty and its last
\* non-whitespace character is ASCII; an empty line gets no mark; with Ltr
\* every line is written as it is (trimmed).
C7_RtlMarks ==
  pc = "done" =>
    target_file.lines =
      <<HeaderLine, <<>>>> \o
      Flatten([b \in 1..Len(to_vtt) |->
                 <<to_vtt[b]._id, to_vtt[b].timecode>>
                   \o [l \in 1..Len(to_vtt[b].text_lines) |->
                         ClaimedLine(to_vtt[b].text_lines[l], direction)]
                   \o << <<>> >>])

\* C8: update_vtt leaves the number and order of the blocks, each block's
\* id and timing and its number of text lines as they were; a line no
\* fragment points at stays blank; the document it was cloned from is not
\* modified.
C8_StructurePreserved ==
  UpdateRan =>
    /\ from_vtt = Parse(source_file)
    /\ Len(to_vtt) = Len(from_vtt)
    /\ \A b \in 1..Len(from_vtt) :
         /\ to_vtt[b]._id = from_vtt[b]._id
         /\ to_vtt[b].timecode = from_vtt[b].timecode
         /\ Len(to_vtt[b].text_lines) = Len(from_vtt[b].text_lines)
         /\ \A l \in 1..Len(to_vtt[b].text_lines) :
              DescsAt(all_sentences, b - 1, l - 1) = {}
                => to_vtt[b].text_lines[l] = <<>>

\* C8's case: a run of two blocks reached the end, and update_vtt gave a
\* line a new text
C8_Witness ==
  /\ pc = "done"
  /\ Len(from_vtt) = 2
  /\ \E b \in 1..Len(to_vtt) :
       \E l \in 1..Len(to_vtt[b].text_lines) :
         /\ to_vtt[b].text_lines[l] # <<>>
         /\ Trim(to_vtt[b].text_lines[l]) # from_vtt[b].text_lines[l]

\* a line the parser takes as a text line
IsTextLine(line) ==
  /\ ~is_blank(line)
  /\ line # HeaderLine
  /\ ~is_new_block(line)
  /\ ~is_timecode(line)

RECURSIVE WellFormedFrom(_, _, _)
\* The lines from the i-th on are blocks, each an identifier line, a timing
\* line and its text lines, with blank lines between the blocks.  mode says
\* what came before: "between" blocks, the "id" line, or a block's "body".
WellFormedFrom(lines, i, mode) ==
  IF i > Len(lines) THEN mode # "id"
  ELSE LET line == lines[i]
       IN  CASE mode = "between" ->
                  \/ is_blank(line) /\ WellFormedFrom(lines, i + 1, "between")
                  \/ is_new_block(line) /\ WellFormedFrom(lines, i + 1, "id")
             [] mode = "id" ->
                  /\ is_timecode(line)
                  /\ ~is_new_block(line)
                  /\ WellFormedFrom(lines, i + 1, "body")
             [] OTHER ->
                  \/ IsTextLine(line) /\ WellFormedFrom(lines, i + 1, "body")
                  \/ is_blank(line) /\ WellFormedFrom(lines, i + 1, "between")

\* a well-formed file: the header line, then blocks
WellFormed(lines) ==
  /\ Len(lines) >= 1
  /\ lines[1] = HeaderLine
  /\ WellFormedFrom(lines, 2, "between")

\* C9 (as stated): the document parsed from a well-formed file, written
\* with direction Ltr and parsed again, is the same document.
C9_RoundTrip ==
  (pc = "rt_done" /\ WellFormed(source_file)) => reparsed = from_vtt

\* the places in DocEvents of the chunks that another split result follows
Closers(ev) ==
  SelectSeq([i \in 1..Len(ev) |-> i], LAMBDA i : ev[i].closes)

\* the text of a sentence made of the chunks first..last: each chunk
\* trimmed, a space after each but the last, a fullstop after the last
SentenceText(ev, first, last) ==
  Flatten([i \in 1..(last - first + 1) |->
             Trim(ev[first + i - 1].chunk)
               \o (IF first + i - 1 = last THEN <<".">> ELSE <<" ">>)])

\* C10: the reconstructor emits one sentence per non-empty chunk that is
\* not the last split result of its line, in scan order; the sentence holds
\* the positions and the texts of the chunks since the previous such chunk,
\* across lines and blocks, the texts joined by a space and ended by a
\* fullstop; the chunks after the last such chunk are not emitted.
C10_TerminationRule ==
  Reconstructed =>
    LET ev == DocEvents(from_vtt)
        cl == Closers(ev)
    IN  /\ Len(all_sentences) = Len(cl)
        /\ \A n \in 1..Len(cl) :
             LET first == IF n = 1 THEN 1 ELSE cl[n - 1] + 1
                 last  == cl[n]
                 descs == all_sentences[n][1]
             IN  /\ Len(descs) = last - first + 1
                 /\ \A j \in 1..Len(descs) :
                      /\ descs[j].block_num = ev[first + j - 1].block_num
                      /\ descs[j].line_num = ev[first + j - 1].line_num
                 /\ all_sentences[n][2] = SentenceText(ev, first, last)

\* C10's case: a sentence was emitted that runs over two blocks, and the
\* document ends with a chunk that no fullstop follows
C10_Witness ==
  /\ Reconstructed
  /\ \E n \in 1..Len(all_sentences) :
       /\ Len(all_sentences[n][1]) >= 2
       /\ all_sentences[n][1][1].block_num # all_sentences[n][1][2].block_num
  /\ LET ev == DocEvents(from_vtt)
     IN  ev # <<>> /\ ~ev[Len(ev)].closes

\* the number of characters a symbol stands for
CharCount(c) ==
  CASE c = "WEBVTT" -> 6
    [] c = "UUID" -> 36
    [] c = "-->" -> 3
    [] OTHER -> 1

RECURSIVE CharLen(_)
\* the number of characters of a text
CharLen(s) == IF s = <<>> THEN 0 ELSE CharCount(Head(s)) + CharLen(Tail(s))

\* C12 (as stated): the fragment_length of every fragment the reconstructor
\* records is the number of characters of the trimmed chunk, also for text
\* with characters of more than one byte.
C12_CharacterCount ==
  Reconstructed =>
    LET ev == DocEvents(from_vtt)
        cl == Closers(ev)
    IN  \A n \in 1..Len(all_sentences) :
          \A j \in 1..Len(all_sentences[n][1]) :
            LET first == IF n = 1 THEN 1 ELSE cl[n - 1] + 1
            IN  all_sentences[n][1][j].chunk_len
                  = CharLen(Trim(ev[first + j - 1].chunk))

\* the text of a chunk made of these words: each followed by one space
ChunkOfWords(ws) == Flatten([i \in 1..Len(ws) |-> ws[i] \o <<" ">>])

\* the number of words in the chunks before the k-th
WordsBefore(chunks, k) ==
  Len(Flatten([j \in 1..(k - 1) |-> WordsOf(chunks[j])]))

IdLinesOf(lines) ==
  SelectSeq([i \in 1..Len(lines) |-> i],
            LAMBDA i : /\ ~is_blank(lines[i])
                       /\ lines[i] # HeaderLine
                       /\ is_new_block(lines[i]))

\* a timing line: it holds the arrow and is no identifier line
IsTimingLine(line) ==
  /\ ~is_blank(line)
  /\ line # HeaderLine
  /\ ~is_new_block(line)
  /\ is_timecode(line)

\* the document has been parsed from the source file
ParsedAnyFile == pc \in {"rt_write", "rt_reparse", "rt_done"}

\* C13: parse yields one block per block-identifier line, in input order;
\* the block's id is that line; its timing is a timing line between its
\* identifier line and the next one (the last of them; the empty string
\* if there is none); its text lines are the other non-blank, non-header
\* lines of that range, trimmed, in order; the block of the last
\* identifier line, in progress at the end of the input, is there too.
C13_BlockAssembly ==
  ParsedAnyFile =>
    LET ids == IdLinesOf(source_file)
    IN  /\ Len(from_vtt) = Len(ids)
        /\ \A n \in 1..Len(ids) :
             LET hi == IF n < Len(ids) THEN ids[n + 1] - 1
                       ELSE Len(source_file)
                 range   == SubSeq(source_file, ids[n] + 1, hi)
                 timings == SelectSeq(range, IsTimingLine)
                 texts   == SelectSeq(range, IsTextLine)
             IN  /\ from_vtt[n]._id = source_file[ids[n]]
                 /\ from_vtt[n].timecode =
                      (IF timings = <<>> THEN <<>> ELSE timings[Len(timings)])
                 /\ from_vtt[n].text_lines
                      = [i \in 1..Len(texts) |-> Trim(texts[i])]

\* C13's case: a file of two blocks whose last line is a text line of the
\* second block, which has a timing line too
C13_Witness ==
  /\ ParsedAnyFile
  /\ Len(from_vtt) = 2
  /\ from_vtt[1]._id # from_vtt[2]._id
  /\ from_vtt[2].timecode # <<>>
  /\ from_vtt[2].text_lines # <<>>
  /\ IsTextLine(source_file[Len(source_file)])

====
